---- MODULE Spec2Model ----
(***************************************************************************)
(* XTree<N> construction (ao/src/render/brep/xtree.cpp), instantiated for   *)
(* N = 2.  The recursive constructor is unrolled into a call stack of       *)
(* frames; every frame walks through the constructor's statements in        *)
(* program order.                                                          *)
(*                                                                         *)
(* Units.  Lengths are integers counted in units of 1/3000, so that the     *)
(* R = 4 sample grid of a cell (thirds of its sides) and the halving of     *)
(* subdivide() stay integral.  An area of 0.001 is 9000 square units.       *)
(* The QEF error is counted in units of 1e-9.                               *)
(*                                                                         *)
(* The QEF matrices AtA, AtB, BtB and the vertex are not computed: of the   *)
(* eigen-solve the model keeps the rank, the divisor massPoint() uses, and  *)
(* the residual findVertex() returns, which is an input (NaN when the mass  *)
(* point has weight zero).                                                 *)
(***************************************************************************)
EXTENDS Integers, Sequences, FiniteSets, TLC

VARIABLES field, tree, released, stack, depth, search, steps

vars == <<field, tree, released, stack, depth, search, steps>>

----------------------------------------------------------------------------
(* Program constants *)

\* template class XTree<2>
Dim == 2

\* region.volume() > 0.001, in square units of (1/3000)^2
VOLUME_EPS == 9000

\* findVertex() < 1e-8, in units of 1e-9
QEF_COLLAPSE_EPS == 10

\* constexpr int _N = 4; NUM = (1 << _N)
NUM == 16

\* constexpr int ITER = SEARCH_COUNT / _N
ITER == 4

\* constexpr unsigned R = 4
R == 4

\* children.size() == corners.size() == 1 << N
NCorners == 2 ^ Dim

Corner == 0 .. (NCorners - 1)

Axis == 1 .. Dim

EMPTY == "EMPTY"

FILLED == "FILLED"

AMBIGUOUS == "AMBIGUOUS"

UNKNOWN == "UNKNOWN"

\* bit j (axis j, 1-based) of corner index i: 1 means "upper along axis j"
Bit(i, j) == (i \div (2 ^ (j - 1))) % 2

Max(a, b) == IF a >= b THEN a ELSE b

Min(a, b) == IF a <= b THEN a ELSE b

RECURSIVE MaxOver(_, _)
MaxOver(f, S) ==
    IF S = {} THEN 0
    ELSE LET x == CHOOSE y \in S : TRUE
         IN  Max(f[x], MaxOver(f, S \ {x}))

----------------------------------------------------------------------------
(* Region<N> *)

Volume(r) == (r.upper[1] - r.lower[1]) * (r.upper[2] - r.lower[2])

Mid(r, j) == (r.lower[j] + r.upper[j]) \div 2

Subdivide(r, i) ==
    [lower |-> [j \in Axis |-> IF Bit(i, j) = 1 THEN Mid(r, j) ELSE r.lower[j]],
     upper |-> [j \in Axis |-> IF Bit(i, j) = 1 THEN r.upper[j] ELSE Mid(r, j)]]

CornerPos(r, i) == [j \in Axis |-> IF Bit(i, j) = 1 THEN r.upper[j] ELSE r.lower[j]]

----------------------------------------------------------------------------
(* Evaluator: the implicit field F and its interval extension *)

Sq(x) == x * x

\* the field is undefined (NaN) at p: "nanplane" is x - c with NaN for x >= d
IsNaNAt(f, p) == f.kind = "nanplane" /\ p[1] >= f.d

\* F(p) where it is a number
F(f, p) ==
    CASE f.kind = "plane"  -> f.a * p[1] + f.b * p[2] - f.c
      [] f.kind = "nanplane" -> p[1] - f.c
      [] f.kind = "circle" -> f.a * (Sq(p[1] - f.b) + Sq(p[2] - f.c) - f.d)
      [] f.kind = "saddle" -> (p[1] - f.b) * (p[2] - f.c)
      [] f.kind = "corner" -> Max(p[1] - f.b, p[2] - f.c)
      [] OTHER             -> f.c

\* values(n)[i] for the staged point p: a number or NaN
Value(f, p) == [nan |-> IsNaNAt(f, p), v |-> IF IsNaNAt(f, p) THEN 0 ELSE F(f, p)]

\* fs[i] < 0 and out[j] >= 0: both are false of NaN
Neg(x) == ~x.nan /\ x.v < 0

NonNeg(x) == ~x.nan /\ x.v >= 0

\* grad F(p), up to a positive factor; NaN where F is
Grad(f, p) ==
    CASE f.kind = "plane"  -> <<f.a, f.b>>
      [] f.kind = "nanplane" -> <<1, 0>>
      [] f.kind = "circle" -> <<f.a * (p[1] - f.b), f.a * (p[2] - f.c)>>
      [] f.kind = "saddle" -> <<p[2] - f.c, p[1] - f.b>>
      [] f.kind = "corner" -> IF p[1] - f.b >= p[2] - f.c THEN <<1, 0>> ELSE <<0, 1>>
      [] OTHER             -> <<0, 0>>

\* range of (x - c)^2 for x in [lo, hi]
SqLo(lo, hi, c) == IF lo <= c /\ c <= hi THEN 0 ELSE Min(Sq(lo - c), Sq(hi - c))

SqHi(lo, hi, c) == Max(Sq(lo - c), Sq(hi - c))

Min4(a, b, c, d) == Min(Min(a, b), Min(c, d))

Max4(a, b, c, d) == Max(Max(a, b), Max(c, d))

\* eval(lower, upper): an interval [lo, hi] enclosing F over the region
IntervalEval(f, r) ==
    LET x0 == r.lower[1]
        x1 == r.upper[1]
        y0 == r.lower[2]
        y1 == r.upper[2]
    IN CASE f.kind = "plane" ->
              [lo |-> Min(f.a * x0, f.a * x1) + Min(f.b * y0, f.b * y1) - f.c,
               hi |-> Max(f.a * x0, f.a * x1) + Max(f.b * y0, f.b * y1) - f.c]
         [] f.kind = "nanplane" -> [lo |-> x0 - f.c, hi |-> x1 - f.c]
         [] f.kind = "circle" ->
              LET dlo == SqLo(x0, x1, f.b) + SqLo(y0, y1, f.c) - f.d
                  dhi == SqHi(x0, x1, f.b) + SqHi(y0, y1, f.c) - f.d
              IN  [lo |-> Min(f.a * dlo, f.a * dhi), hi |-> Max(f.a * dlo, f.a * dhi)]
         [] f.kind = "saddle" ->
              LET a0 == x0 - f.b
                  a1 == x1 - f.b
                  b0 == y0 - f.c
                  b1 == y1 - f.c
              IN  [lo |-> Min4(a0 * b0, a0 * b1, a1 * b0, a1 * b1),
                   hi |-> Max4(a0 * b0, a0 * b1, a1 * b0, a1 * b1)]
         [] f.kind = "corner" ->
              [lo |-> Max(x0 - f.b, y0 - f.c), hi |-> Max(x1 - f.b, y1 - f.c)]
         [] OTHER -> [lo |-> f.c, hi |-> f.c]

\* the interval result has a NaN bound
IntervalNaN(f, r) == f.kind = "nanplane" /\ r.upper[1] >= f.d

\* Interval::isFilled / Interval::isEmpty
IsFilled(iv) == iv.hi < 0

IsEmpty(iv) == iv.lo > 0

----------------------------------------------------------------------------
(* Inputs: the fields and root regions the tree is built for *)

Fld(k, a, b, c, d) == [kind |-> k, a |-> a, b |-> b, c |-> c, d |-> d]

Fields ==
    { Fld("const", 0, 0, 1, 0), Fld("const", 0, 0, -1, 0),
      Fld("plane", 1, 0, 40, 0), Fld("plane", -1, 0, -40, 0),
      Fld("plane", 0, 1, 60, 0), Fld("plane", 1, 1, 100, 0),
      Fld("plane", 1, 0, 75, 0), Fld("plane", 1, 0, 200, 0),
      Fld("circle", 1, 75, 120, 100), Fld("circle", -1, 75, 120, 100),
      Fld("circle", 1, 37, 60, 100), Fld("circle", -1, 37, 60, 100),
      Fld("circle", 1, 0, 0, 2500), Fld("circle", 1, 150, 240, 10000),
      Fld("saddle", 0, 37, 60, 0), Fld("saddle", 0, 75, 120, 0),
      Fld("corner", 0, 40, 60, 0), Fld("corner", 0, 100, 200, 0),
      Fld("nanplane", 0, 0, 40, 60), Fld("nanplane", 0, 0, 100, 75) }

Box(w, h) == [lower |-> <<0, 0>>, upper |-> <<w, h>>]

\* the largest root region is 4^MaxRootDepth cells of volume VOLUME_EPS
MaxRootDepth == 2

\* cells of exactly VOLUME_EPS doubled MaxRootDepth times, and one root just
\* above VOLUME_EPS
RootRegions ==
    { Box(75 * 2 ^ k, 120 * 2 ^ k) : k \in 0 .. MaxRootDepth } \cup { Box(78, 120) }

\* QEF residuals (units of 1e-9) the eigen-solve may return for a summed QEF:
\* just below the collapse threshold, and exactly at it
ErrSamples == { 9, 10 }

----------------------------------------------------------------------------
(* XTree<N> node *)

NoErr == [computed |-> FALSE, nan |-> FALSE, v |-> 0]

NewNode(r) ==
    [region   |-> r,
     type     |-> UNKNOWN,
     corners  |-> [i \in Corner |-> UNKNOWN],
     children |-> {},
     level    |-> 0,
     rank     |-> 0,
     manifold |-> FALSE,
     mp       |-> [sum |-> [j \in Axis |-> 0], w |-> 0],
     \* history of the constructor call, for stating the properties
     ival     |-> UNKNOWN,
     route    |-> "none",
     pushes   |-> 0,
     pops     |-> 0,
     depthIn  |-> 0,
     depthOut |-> 0,
     mpCalled |-> FALSE,
     mpDiv    |-> 0,
     err      |-> NoErr,
     edgesHit |-> 0,
     misses   |-> 0,
     done     |-> FALSE]

\* isBranch(): children[0] is non-null
IsBranch(n) == 0 \in n.children

CornerState(n, i) == n.corners[i]

RECURSIVE MaskSum(_, _)
MaskSum(n, S) ==
    IF S = {} THEN 0
    ELSE LET i == CHOOSE x \in S : TRUE
         IN  (IF CornerState(n, i) = FILLED THEN 2 ^ i ELSE 0) + MaskSum(n, S \ {i})

CornerMask(n) == MaskSum(n, Corner)

\* edges(): the cell's edges as pairs of corner indices
Edges == << <<0, 1>>, <<0, 2>>, <<1, 3>>, <<2, 3>> >>

\* corner_table lookup: the two diagonal sign patterns are not manifold
CornersAreManifold(n) == CornerMask(n) \notin {6, 9}

\* kids[i] is child i.  Every edge midpoint agrees with an end of its edge,
\* and the centre agrees with some corner.
LeafsAreManifold(n, kids) ==
    /\ \A e \in 1 .. Len(Edges) :
          LET a == Edges[e][1]
              b == Edges[e][2]
          IN  CornerState(kids[a], b) \in {CornerState(n, a), CornerState(n, b)}
    /\ CornerState(kids[0], NCorners - 1) \in {CornerState(n, i) : i \in Corner}

----------------------------------------------------------------------------
(* Pieces of the constructor *)

IntervalState(f, r) ==
    LET iv == IntervalEval(f, r)
    IN  IF IntervalNaN(f, r) THEN AMBIGUOUS
        ELSE IF IsFilled(iv) THEN FILLED
        ELSE IF IsEmpty(iv) THEN EMPTY
        ELSE AMBIGUOUS

\* variant: the comparison written >=
ShouldSubdivideGe(r) == Volume(r) >= VOLUME_EPS

\* if (region.volume() > 0.001)
ShouldSubdivide(r) == Volume(r) > VOLUME_EPS

\* variant: every corner taken from the child's corner 0
GrabCornerZero(child, i) == child.corners[0]

\* corners[i] = children[i]->corners[i]
GrabCorner(child, i) == child.corners[i]

\* all_empty &= children[i]->type == Interval::EMPTY
ChildAllEmpty(acc, child) == acc /\ child.type = EMPTY

\* variant: a child counts as full unless it is EMPTY
ChildAllFullLoose(acc, child) == acc /\ child.type # EMPTY

\* all_full &= children[i]->type == Interval::FILLED
ChildAllFull(acc, child) == acc /\ child.type = FILLED

\* corners[i] = (fs[i] < 0) ? Interval::FILLED : Interval::EMPTY
SampleCorner(v) == IF Neg(v) THEN FILLED ELSE EMPTY

\* type = all_empty ? EMPTY : all_full ? FILLED : AMBIGUOUS
AggregateType(all_empty, all_full) ==
    IF all_empty THEN EMPTY ELSE IF all_full THEN FILLED ELSE AMBIGUOUS

\* variant: the fill without manifold = true
UniformFillOnly(n) ==
    IF n.type \in {FILLED, EMPTY}
    THEN [n EXCEPT !.corners = [i \in Corner |-> n.type]]
    ELSE n

\* if (type == FILLED || type == EMPTY) { fill(corners, type); manifold = true; }
UniformFill(n) ==
    IF n.type \in {FILLED, EMPTY}
    THEN [n EXCEPT !.corners = [i \in Corner |-> n.type], !.manifold = TRUE]
    ELSE n

\* variant: the maximum without the + 1
BranchLevelNoInc(kids) == MaxOver([i \in Corner |-> kids[i].level], Corner)

\* level = accumulate(children, 0, max(a, b->level)) + 1
BranchLevel(kids) == MaxOver([i \in Corner |-> kids[i].level], Corner) + 1

\* all_of(children, !o->isBranch())
AllLeaves(kids) == \A i \in Corner : ~IsBranch(kids[i])

\* cornersAreManifold() && all_of(children, o->manifold) && leafsAreManifold()
BranchManifold(n, kids) ==
    /\ CornersAreManifold(n)
    /\ \A i \in Corner : kids[i].manifold
    /\ LeafsAreManifold(n, kids)

\* rank = accumulate(children, 0, max(a, b->rank))
BranchRank(kids) == MaxOver([i \in Corner |-> kids[i].rank], Corner)

RECURSIVE SumMass(_, _, _)
SumMass(kids, rk, S) ==
    IF S = {} THEN [sum |-> [j \in Axis |-> 0], w |-> 0]
    ELSE LET i == CHOOSE x \in S : TRUE
             rest == SumMass(kids, rk, S \ {i})
         IN  IF kids[i].rank = rk
             THEN [sum |-> [j \in Axis |-> rest.sum[j] + kids[i].mp.sum[j]],
                   w   |-> rest.w + kids[i].mp.w]
             ELSE rest

\* for (c : children) if (c->rank == rank) _mass_point += c->_mass_point
MergeMass(mp, kids, rk) ==
    LET s == SumMass(kids, rk, Corner)
    IN  [sum |-> [j \in Axis |-> mp.sum[j] + s.sum[j]], w |-> mp.w + s.w]

\* findVertex(): the QEF error at vert.  center = massPoint() divides by
\* _mass_point(N); with a zero weight center, vert and the error are NaN.
\* Otherwise the residual is the solver's result e.
FindVertex(n, e) ==
    IF n.mp.w = 0 THEN [computed |-> TRUE, nan |-> TRUE, v |-> 0]
    ELSE [computed |-> TRUE, nan |-> FALSE, v |-> e]

\* variant: the comparison written <=
CollapseOKLe(err) == ~err.nan /\ err.v <= QEF_COLLAPSE_EPS

\* if (findVertex() < 1e-8): a comparison with NaN is false
CollapseOK(err) == ~err.nan /\ err.v < QEF_COLLAPSE_EPS

\* massPoint(): _mass_point.head<N>() / _mass_point(N); records the divisor
MassPoint(n) == [n EXCEPT !.mpCalled = TRUE, !.mpDiv = n.mp.w]

\* double frac = j / (N - 1.0); ps[j] = inside * (1 - frac) + outside * frac
Candidate(inside, outside, j) ==
    [k \in Axis |-> (inside[k] * ((Dim - 1) - j) + outside[k] * j) \div (Dim - 1)]

\* the smallest j with out[j] >= 0, or -1 when the loop ends without a break
FirstCross(out) ==
    IF \E j \in 0 .. (NUM - 1) : NonNeg(out[j])
    THEN CHOOSE j \in 0 .. (NUM - 1) :
            NonNeg(out[j]) /\ \A k \in 0 .. (j - 1) : ~NonNeg(out[k])
    ELSE -1

\* variant: the point added without its weight
AddMassNoWeight(mp, inside) == [sum |-> [j \in Axis |-> mp.sum[j] + inside[j]], w |-> mp.w]

\* mp << inside, 1; _mass_point += mp
AddMass(mp, inside) == [sum |-> [j \in Axis |-> mp.sum[j] + inside[j]], w |-> mp.w + 1]

\* pts.row(i) = lower * (1 - frac) + upper * frac, frac = i / (R - 1)
GridPos(r, i, j) == (r.lower[j] * ((R - 1) - i) + r.upper[j] * i) \div (R - 1)

Samples(r) == { <<GridPos(r, a, 1), GridPos(r, b, 2)>> : a \in 0 .. (R - 1), b \in 0 .. (R - 1) }

Cross(g, h) == g[1] * h[2] - g[2] * h[1]

\* rank = (eigenvalues.abs() >= EIGENVALUE_CUTOFF).count() of AtA = sum n n^T:
\* the number of independent sampled normals.  A NaN derivative gives the
\* zero row; a zero gradient normalises to NaN and leaves no eigenvalue
\* above the cutoff.
LeafRank(f, r) ==
    LET gs == { Grad(f, p) : p \in { q \in Samples(r) : ~IsNaNAt(f, q) } }
    IN  IF <<0, 0>> \in gs \/ gs = {} THEN 0
        ELSE IF \A g \in gs, h \in gs : Cross(g, h) = 0 THEN 1
        ELSE 2

----------------------------------------------------------------------------
(* State *)

Top == stack[Len(stack)]

SetTop(fr) == [stack EXCEPT ![Len(stack)] = fr]

NewFrame(p) == [path |-> p, pc |-> "eval", i |-> 0, all_empty |-> TRUE, all_full |-> TRUE]

NoSearch ==
    [e |-> 0, it |-> 0, loaded |-> FALSE, miss |-> 0,
     inside |-> <<0, 0>>, outside |-> <<0, 0>>,
     bIn |-> <<0, 0>>, bOut |-> <<0, 0>>,
     ps |-> [j \in 0 .. (NUM - 1) |-> <<0, 0>>]]

\* the nodes strictly below p
Below(p) == { q \in DOMAIN tree : Len(q) > Len(p) /\ SubSeq(q, 1, Len(p)) = p }

Kids(p) == [i \in Corner |-> tree[Append(p, i)]]

Init ==
    /\ field \in Fields
    /\ \E r \in RootRegions : tree = (<<>> :> NewNode(r))
    /\ released = [q \in {} |-> NewNode(Box(0, 0))]
    /\ stack = <<NewFrame(<<>>)>>
    /\ depth = 0
    /\ search = NoSearch
    /\ steps = 0

----------------------------------------------------------------------------
(* The constructor, statement by statement *)

\* lines 21-39: interval evaluation, push, and the choice of route
Eval ==
    /\ Top.pc = "eval"
    /\ LET p  == Top.path
           n  == tree[p]
           st == IntervalState(field, n.region)
           rt == IF st # AMBIGUOUS THEN "uniform"
                 ELSE IF ShouldSubdivide(n.region) THEN "subdivided"
                 ELSE "sampled"
       IN  /\ depth' = depth + 1
           /\ tree' = [tree EXCEPT ![p] =
                  [n EXCEPT !.ival = st,
                            !.type = IF st = AMBIGUOUS THEN @ ELSE st,
                            !.route = rt,
                            !.depthIn = depth,
                            !.pushes = @ + 1]]
           /\ stack' = SetTop([Top EXCEPT !.pc =
                  CASE rt = "uniform" -> "exit"
                    [] rt = "subdivided" -> "recurse"
                    [] OTHER -> "sample"])
    /\ UNCHANGED <<field, released, search>>
    /\ steps' = steps + 1

\* line 45: new XTree<N>(eval, rs[i])
Recurse ==
    /\ Top.pc = "recurse"
    /\ Top.i < NCorners
    /\ LET p == Top.path
           q == Append(p, Top.i)
       IN  /\ tree' = (q :> NewNode(Subdivide(tree[p].region, Top.i))) @@ tree
           /\ stack' = Append(stack, NewFrame(q))
    /\ UNCHANGED <<field, released, depth, search>>
    /\ steps' = steps + 1

\* lines 45-51: the child is built; store it and grab its corner and type
Return ==
    /\ Len(stack) > 1
    /\ Top.pc = "done"
    /\ LET fr    == stack[Len(stack) - 1]
           p     == fr.path
           i     == fr.i
           child == tree[Top.path]
       IN  /\ tree' = [tree EXCEPT ![p] =
                  [@ EXCEPT !.children = @ \cup {i},
                            !.corners = [@ EXCEPT ![i] = GrabCorner(child, i)]]]
           /\ stack' = [SubSeq(stack, 1, Len(stack) - 1) EXCEPT ![Len(stack) - 1] =
                  [fr EXCEPT !.i = i + 1,
                             !.all_empty = ChildAllEmpty(fr.all_empty, child),
                             !.all_full = ChildAllFull(fr.all_full, child)]]
    /\ UNCHANGED <<field, released, depth, search>>
    /\ steps' = steps + 1

\* lines 53, 75-76: pop after the loop over the children, then the type
EndRecurse ==
    /\ Top.pc = "recurse"
    /\ Top.i = NCorners
    /\ depth' = depth - 1
    /\ tree' = [tree EXCEPT ![Top.path] =
           [@ EXCEPT !.pops = @ + 1,
                     !.type = AggregateType(Top.all_empty, Top.all_full)]]
    /\ stack' = SetTop([Top EXCEPT !.pc = "exit"])
    /\ UNCHANGED <<field, released, search>>
    /\ steps' = steps + 1

\* lines 59-76: the terminal cell samples its corners
Sample ==
    /\ Top.pc = "sample"
    /\ LET p  == Top.path
           n  == tree[p]
           cs == [i \in Corner |-> SampleCorner(Value(field, CornerPos(n.region, i)))]
           af == \A i \in Corner : cs[i] = FILLED
           ae == \A i \in Corner : cs[i] # FILLED
       IN  /\ tree' = [tree EXCEPT ![p] =
                  [n EXCEPT !.corners = cs, !.type = AggregateType(ae, af)]]
           /\ stack' = SetTop([Top EXCEPT !.pc = "exit", !.all_empty = ae, !.all_full = af])
    /\ UNCHANGED <<field, released, depth, search>>
    /\ steps' = steps + 1

\* lines 78-85: pop, then the uniform corner fill
Exit ==
    /\ Top.pc = "exit"
    /\ depth' = depth - 1
    /\ tree' = [tree EXCEPT ![Top.path] =
           UniformFill([@ EXCEPT !.pops = @ + 1, !.depthOut = depth - 1])]
    /\ stack' = SetTop([Top EXCEPT !.pc = "post"])
    /\ UNCHANGED <<field, released, search>>
    /\ steps' = steps + 1

\* lines 89-142: level, the manifold checks, the summed QEF and the collapse
Simplify ==
    /\ Top.pc = "post"
    /\ IsBranch(tree[Top.path])
    /\ \E e \in ErrSamples :
          LET p       == Top.path
              kids    == Kids(p)
              n1      == [tree[p] EXCEPT !.level = BranchLevel(kids)]
              leaves  == AllLeaves(kids)
              n2      == IF leaves THEN [n1 EXCEPT !.manifold = BranchManifold(n1, kids)]
                         ELSE n1
              attempt == leaves /\ n2.manifold
              n3      == IF attempt
                         THEN [n2 EXCEPT !.rank = BranchRank(kids),
                                         !.mp = MergeMass(n2.mp, kids, BranchRank(kids))]
                         ELSE n2
              n4      == IF attempt
                         THEN [MassPoint(n3) EXCEPT !.err = FindVertex(n3, e)]
                         ELSE n3
              gone    == IF attempt /\ CollapseOK(n4.err) THEN Below(p) ELSE {}
              n5      == [n4 EXCEPT !.children = IF gone # {} THEN {} ELSE @,
                                    !.done = TRUE]
          IN  /\ tree' = [q \in DOMAIN tree \ gone |-> IF q = p THEN n5 ELSE tree[q]]
              /\ released' = [q \in gone |-> tree[q]] @@ released
    /\ stack' = SetTop([Top EXCEPT !.pc = "done"])
    /\ UNCHANGED <<field, depth, search>>
    /\ steps' = steps + 1

\* neither a branch nor AMBIGUOUS: the constructor has nothing left to do
LeafDone ==
    /\ Top.pc = "post"
    /\ ~IsBranch(tree[Top.path])
    /\ tree[Top.path].type # AMBIGUOUS
    /\ tree' = [tree EXCEPT ![Top.path].done = TRUE]
    /\ stack' = SetTop([Top EXCEPT !.pc = "done"])
    /\ UNCHANGED <<field, released, depth, search>>
    /\ steps' = steps + 1

\* lines 143-146: manifold = cornersAreManifold()
BeginLeaf ==
    /\ Top.pc = "post"
    /\ ~IsBranch(tree[Top.path])
    /\ tree[Top.path].type = AMBIGUOUS
    /\ tree' = [tree EXCEPT ![Top.path].manifold = CornersAreManifold(tree[Top.path])]
    /\ stack' = SetTop([Top EXCEPT !.pc = "edges"])
    /\ search' = [NoSearch EXCEPT !.e = 1]
    /\ UNCHANGED <<field, released, depth>>
    /\ steps' = steps + 1

\* lines 151-158: the next edge; a sign change sets up the bracket
EdgeStep ==
    /\ Top.pc = "edges"
    /\ search.e <= Len(Edges)
    /\ LET n == tree[Top.path]
           a == Edges[search.e][1]
           b == Edges[search.e][2]
           aFilled == CornerState(n, a) = FILLED
       IN  IF CornerState(n, a) # CornerState(n, b)
           THEN /\ search' = [search EXCEPT
                       !.it = 0,
                       !.inside = CornerPos(n.region, IF aFilled THEN a ELSE b),
                       !.outside = CornerPos(n.region, IF aFilled THEN b ELSE a)]
                /\ stack' = SetTop([Top EXCEPT !.pc = "search"])
           ELSE /\ search' = [search EXCEPT !.e = @ + 1]
                /\ stack' = stack
    /\ UNCHANGED <<field, tree, released, depth>>
    /\ steps' = steps + 1

\* lines 167-192: one iteration of the search.  A break at j = 0 reads
\* ps[-1], which is outside the array: any position may come back.
SearchIter ==
    /\ Top.pc = "search"
    /\ search.it < ITER
    /\ LET ps  == [j \in 0 .. (NUM - 1) |-> Candidate(search.inside, search.outside, j)]
           out == [j \in 0 .. (NUM - 1) |-> Value(field, ps[j])]
           j   == FirstCross(out)
           far == IF j = 0 THEN { CornerPos(tree[Top.path].region, i) : i \in Corner }
                  ELSE { search.inside }
       IN  \E junk \in far :
              search' = [search EXCEPT
                  !.it = @ + 1,
                  !.loaded = TRUE,
                  !.miss = IF j < 0 THEN @ + 1 ELSE @,
                  !.ps = ps,
                  !.bIn = search.inside,
                  !.bOut = search.outside,
                  !.inside = IF j < 0 THEN @ ELSE IF j = 0 THEN junk ELSE ps[j - 1],
                  !.outside = IF j < 0 THEN @ ELSE ps[j]]
    /\ UNCHANGED <<field, tree, released, stack, depth>>
    /\ steps' = steps + 1

\* lines 194-197: accumulate the intersection in the mass point
Accumulate ==
    /\ Top.pc = "search"
    /\ search.it = ITER
    /\ tree' = [tree EXCEPT ![Top.path] =
           [@ EXCEPT !.mp = AddMass(tree[Top.path].mp, search.inside),
                     !.edgesHit = @ + 1,
                     !.misses = @ + search.miss]]
    /\ search' = [NoSearch EXCEPT !.e = search.e + 1]
    /\ stack' = SetTop([Top EXCEPT !.pc = "edges"])
    /\ UNCHANGED <<field, released, depth>>
    /\ steps' = steps + 1

\* lines 206-301: the leaf's vertex, from the QEF or at the mass point
LeafVertex ==
    /\ Top.pc = "edges"
    /\ search.e > Len(Edges)
    /\ LET n == tree[Top.path]
       IN  tree' = [tree EXCEPT ![Top.path] =
               IF n.manifold
               THEN [MassPoint([n EXCEPT !.rank = LeafRank(field, n.region)])
                        EXCEPT !.done = TRUE]
               ELSE [MassPoint(n) EXCEPT !.done = TRUE]]
    /\ search' = NoSearch
    /\ stack' = SetTop([Top EXCEPT !.pc = "done"])
    /\ UNCHANGED <<field, released, depth>>
    /\ steps' = steps + 1

Next ==
    \/ Eval
    \/ Recurse
    \/ Return
    \/ EndRecurse
    \/ Sample
    \/ Exit
    \/ Simplify
    \/ LeafDone
    \/ BeginLeaf
    \/ EdgeStep
    \/ SearchIter
    \/ Accumulate
    \/ LeafVertex

Spec == Init /\ [][Next]_vars

\* the constructor is straight-line, single-threaded code: it keeps running
FairSpec == Spec /\ WF_vars(Next)

\* the root constructor has returned
Finished == Len(stack) = 1 /\ Top.pc = "done"

\* the statements one call runs itself at most: as a terminal cell with every
\* edge searched, and as a node with children
LeafWork == 5 + Len(Edges) * (ITER + 2)

BranchWork == 4 + 2 * NCorners

\* the statements a call on a region of volume v runs at most, its recursive
\* calls included
RECURSIVE WorkBound(_)
WorkBound(v) ==
    IF v <= VOLUME_EPS THEN LeafWork
    ELSE BranchWork + NCorners * WorkBound(v \div NCorners)

----------------------------------------------------------------------------
(* Properties *)

Nodes == DOMAIN tree

DoneNodes == { p \in Nodes : tree[p].done }

\* child i of p as it was when p's constructor looked at it: still in the
\* tree, or released by a collapse
KidAt(p, i) ==
    IF Append(p, i) \in DOMAIN tree THEN tree[Append(p, i)] ELSE released[Append(p, i)]

KidsAt(p) == [i \in Corner |-> KidAt(p, i)]

Uniform(n) == n.type \in {FILLED, EMPTY}

\* built with children that a collapse released
Collapsed(n) == n.done /\ n.route = "subdivided" /\ ~IsBranch(n)

\* C1: every constructor call does one push and one pop and returns with the
\* evaluator's stack depth it was entered with; after the root the depth is
\* the initial one
C1_PushPopBalanced ==
    /\ \A p \in DoneNodes :
          /\ tree[p].pushes = 1
          /\ tree[p].pops = 1
          /\ tree[p].depthOut = tree[p].depthIn
    /\ Finished => depth = 0

\* C2: every finished node that has children carries, at corner i, the
\* corner i of its child i
C2_ConsistentCorners ==
    \A p \in DoneNodes :
        IsBranch(tree[p]) =>
            \A i \in Corner : tree[p].corners[i] = tree[Append(p, i)].corners[i]

\* C2 witness: a finished tree with a branch of uniform type (its corners were
\* overwritten by the fill) above leaves
C2_Witness ==
    /\ Finished
    /\ \E p \in Nodes : IsBranch(tree[p]) /\ Uniform(tree[p])

\* C3: a finished node of type FILLED or EMPTY has all corners of that type
\* and is manifold
C3_UniformCornersManifold ==
    \A p \in DoneNodes :
        Uniform(tree[p]) =>
            /\ \A i \in Corner : tree[p].corners[i] = tree[p].type
            /\ tree[p].manifold

\* C3 witness: a uniform branch whose children are all leaves, so that the
\* simplification check assigned its manifold flag again
C3_Witness ==
    \E p \in DoneNodes :
        /\ IsBranch(tree[p])
        /\ Uniform(tree[p])
        /\ AllLeaves(Kids(p))

\* C4 as claimed: level is 0 at every leaf, collapsed ones included, and
\* 1 + max child level at every branch
C4_LevelByShape ==
    \A p \in DoneNodes :
        tree[p].level =
            IF IsBranch(tree[p]) THEN 1 + MaxOver([i \in Corner |-> Kids(p)[i].level], Corner)
            ELSE 0

\* C4 amended: level is 0 at a node that never had children, and
\* 1 + max child level at a node built with children, whether it kept them
\* or released them by collapse
C4_LevelKeptOnCollapse ==
    \A p \in DoneNodes :
        tree[p].level =
            IF tree[p].route = "subdivided"
            THEN 1 + MaxOver([i \in Corner |-> KidsAt(p)[i].level], Corner)
            ELSE 0

\* C4 witness: a collapsed leaf above a collapsed leaf
C4_Witness ==
    \E p \in DoneNodes :
        /\ Collapsed(tree[p])
        /\ \E i \in Corner : Collapsed(KidAt(p, i))

CornerType(n) ==
    IF \A i \in Corner : n.corners[i] = FILLED THEN FILLED
    ELSE IF \A i \in Corner : n.corners[i] = EMPTY THEN EMPTY
    ELSE AMBIGUOUS

\* C5 as claimed: the type of a node whose interval was ambiguous is the
\* aggregate of its corners
C5_TypeByCorners ==
    \A p \in DoneNodes :
        tree[p].ival = AMBIGUOUS => tree[p].type = CornerType(tree[p])

\* C5 amended: a sampled cell has the aggregate type of its corners; a
\* subdivided node is FILLED iff every child is of type FILLED, EMPTY iff
\* every child is of type EMPTY, and AMBIGUOUS otherwise
C5_TypeByCornersOrChildren ==
    \A p \in DoneNodes :
        /\ tree[p].route = "sampled" => tree[p].type = CornerType(tree[p])
        /\ tree[p].route = "subdivided" =>
              tree[p].type =
                  IF \A i \in Corner : KidAt(p, i).type = FILLED THEN FILLED
                  ELSE IF \A i \in Corner : KidAt(p, i).type = EMPTY THEN EMPTY
                  ELSE AMBIGUOUS

\* C5 witness: a subdivided node whose corners agree and which is AMBIGUOUS
\* because of an AMBIGUOUS child
C5_Witness ==
    \E p \in DoneNodes :
        /\ tree[p].route = "subdivided"
        /\ CornerType(tree[p]) # AMBIGUOUS
        /\ tree[p].type = AMBIGUOUS

\* C6: a node built with children has released them iff all were leaves, the
\* three manifold checks held and the summed QEF's error was below 1e-8;
\* otherwise it keeps all 2^N, and a release leaves nothing below the node
C6_CollapseDecision ==
    \A p \in DoneNodes :
        tree[p].route = "subdivided" =>
            LET n    == tree[p]
                kids == KidsAt(p)
                ok   == /\ \A i \in Corner : ~IsBranch(kids[i])
                        /\ CornersAreManifold(n)
                        /\ \A i \in Corner : kids[i].manifold
                        /\ LeafsAreManifold(n, kids)
                        /\ n.err.computed
                        /\ ~n.err.nan
                        /\ n.err.v < QEF_COLLAPSE_EPS
            IN  /\ ~IsBranch(n) <=> ok
                /\ IsBranch(n) => /\ n.children = Corner
                                  /\ \A i \in Corner : Append(p, i) \in DOMAIN tree
                /\ ~IsBranch(n) => Below(p) = {}

\* C6 witness: a collapsed node under a node that solved its summed QEF to
\* exactly the threshold and kept its children
C6_Witness ==
    \E p \in DoneNodes :
        /\ IsBranch(tree[p])
        /\ tree[p].err.computed
        /\ tree[p].err.v = QEF_COLLAPSE_EPS
        /\ \E i \in Corner : Collapsed(tree[Append(p, i)])

\* the route of every node is the one its volume asks for, and a child has
\* 1/2^N of its parent's volume
RouteByVolume ==
    \A p \in Nodes :
        /\ tree[p].route = "subdivided" => Volume(tree[p].region) > VOLUME_EPS
        /\ tree[p].route = "sampled" => Volume(tree[p].region) <= VOLUME_EPS
        /\ p # <<>> =>
              Volume(tree[p].region) * NCorners =
                  Volume(tree[SubSeq(p, 1, Len(p) - 1)].region)

\* C7: subdivision happens only above VOLUME_EPS and the terminal path is
\* taken at or below it; the root constructor returns: a call that has not
\* returned can always run its next statement, every statement advances the
\* count of statements run, and that count never exceeds the bound that
\* quartering the root's volume down to VOLUME_EPS gives
C7_Terminates ==
    /\ [](RouteByVolume)
    /\ [](Finished \/ ENABLED Next)
    /\ [](steps <= WorkBound(Volume(tree[<<>>].region)))
    /\ [][steps' = steps + 1]_vars

\* C7 witness: a finished tree with a subdivided node over a sampled cell of
\* volume exactly VOLUME_EPS
C7_Witness ==
    /\ Finished
    /\ \E p \in Nodes :
          /\ tree[p].route = "sampled"
          /\ Volume(tree[p].region) = VOLUME_EPS
          /\ p # <<>>

Between(a, x, b) == \A k \in Axis : Min(a[k], b[k]) <= x[k] /\ x[k] <= Max(a[k], b[k])

\* C8: in each iteration the candidates run from the current inside point
\* (candidate 0) to the current outside point (candidate NUM - 1), none lies
\* off the segment, and the new bracket lies in the old one
C8_CandidatesSpanBracket ==
    search.loaded =>
        /\ search.ps[0] = search.bIn
        /\ search.ps[NUM - 1] = search.bOut
        /\ \A j \in 0 .. (NUM - 1) : Between(search.bIn, search.ps[j], search.bOut)
        /\ Between(search.bIn, search.inside, search.bOut)
        /\ Between(search.bIn, search.outside, search.bOut)

SignChanges(n) ==
    Cardinality({ e \in 1 .. Len(Edges) :
        CornerState(n, Edges[e][1]) # CornerState(n, Edges[e][2]) })

\* C9: the weight of the mass point of a finished AMBIGUOUS terminal leaf is
\* the number of its edges whose end corners differ
C9_WeightCountsEdges ==
    \A p \in DoneNodes :
        (tree[p].route = "sampled" /\ tree[p].type = AMBIGUOUS) =>
            tree[p].mp.w = SignChanges(tree[p])

\* C9 witness: such a leaf with two sign-changing edges, one of which had
\* search iterations in which no candidate crossed
C9_Witness ==
    \E p \in DoneNodes :
        /\ tree[p].route = "sampled"
        /\ tree[p].type = AMBIGUOUS
        /\ tree[p].mp.w >= 2
        /\ tree[p].misses > 0

\* C10: whenever massPoint() has divided, the weight it divided by was
\* strictly positive
C10_MassWeightPositive ==
    \A p \in Nodes : tree[p].mpCalled => tree[p].mpDiv > 0

====
